---- MODULE Spec2Model ----
(***************************************************************************)
(* A model of ncar_dask_monitor: one run of run_qhist                      *)
(* (dask_mem_usage.py) over a qhist export, through                        *)
(* JobsSummary._read_all_jobs, dask_user_report and dask_csg_report        *)
(* (report_generator.py); and bin_summary, compute_summary_stats and the   *)
(* job filter of _read_all_jobs, each as a function of its own.            *)
(*                                                                         *)
(* Text is a sequence of one-character strings, so that substring and      *)
(* regular-expression matching are computed and not assumed.  In a table   *)
(* of jobs a float is a record [k, v]: k = "num" with the integer v, or    *)
(* one of the IEEE specials "nan", "inf", "ninf" that float division       *)
(* produces; the memory figures of the exports are chosen so that every    *)
(* quotient of a row is an integer, and the means of dask_csg_report are   *)
(* exact rationals.  The columns handed to compute_summary_stats are       *)
(* float64 in full: bit vectors with a 53-bit significand, added and       *)
(* divided with rounding to nearest, ties to even.                         *)
(***************************************************************************)
EXTENDS Integers, Sequences, FiniteSets, TLC

VARIABLES
    args,        \* argparse.Namespace: worker, user, table, and what os.path.dirname(filename) is
    libEmptyDt,  \* whether the pandas build types the date columns of a frame with no rows
    file,        \* the file at args.filename: [exists, lines]
    pc,          \* position of the run inside run_qhist / _read_all_jobs
    jobs,        \* local `jobs` of _read_all_jobs: [cols, rows]
    local_dj,    \* local `dask_jobs` of _read_all_jobs: [cols, rows]
    dask_jobs,   \* attribute self.dask_jobs: [set, cols, rows]
    warned,      \* the warnings.warn messages issued, in order
    printed,     \* the report sections printed, in order
    outcome,     \* "running", "ok", or the exception that left run_qhist
    bs_in,       \* bin_summary on its own: [values, bins]
    bs_out,      \* bin_summary on its own: [done, bin, pct, shown]
    stopped,     \* how _read_all_jobs ended: "no", "early" (a return before line 235), "set"
    csg,         \* dask_csg_report: [done, grouped, agg, shown, saved, csv]
    st_in,       \* compute_summary_stats on its own: the column df[field]
    st_out,      \* compute_summary_stats on its own: [done, raised, stats]
    jf_in,       \* the job filter on its own: [worker, rows]
    jf_out,      \* the job filter on its own: [applied, rows, before]
    calls,       \* the calls run_qhist has made, in order: [op, with]
    vd_in,       \* validate_dates on its own: [start_date, end_date, days, today, error_returns]
    vd_out       \* validate_dates on its own: [done, start_date, end_date, errors, raised]

vars == << args, libEmptyDt, file, pc, jobs, local_dj, dask_jobs, warned,
           printed, outcome, bs_in, bs_out, stopped, csg, st_in, st_out,
           jf_in, jf_out, calls, vd_in, vd_out >>

\* the state of the functions that are also run on their own
pureVars == << bs_in, bs_out, st_in, st_out, jf_in, jf_out, vd_in, vd_out >>

-----------------------------------------------------------------------------
(* Bounds of the model *)

MaxRows == 2      \* data lines of a generated export
MaxValues == 3    \* values handed to bin_summary on its own
MaxColumn == 3    \* values of a column handed to compute_summary_stats on its own

-----------------------------------------------------------------------------
(* Floats *)

Num(n) == [k |-> "num", v |-> n]
NaN == [k |-> "nan", v |-> 0]
PosInf == [k |-> "inf", v |-> 0]
NegInf == [k |-> "ninf", v |-> 0]

\* x < y on floats (every comparison with NaN is false)
FLt(x, y) ==
    /\ x.k # "nan" /\ y.k # "nan"
    /\ \/ x.k = "ninf" /\ y.k # "ninf"
       \/ x.k # "inf" /\ y.k = "inf"
       \/ x.k = "num" /\ y.k = "num" /\ x.v < y.v

\* x <= y on floats
FLe(x, y) ==
    /\ x.k # "nan" /\ y.k # "nan"
    /\ \/ FLt(x, y)
       \/ x.k = y.k /\ x.v = y.v

\* a / b * 100.0 on floats made of the integers a and b, as numpy divides:
\* x / 0 is inf or -inf by the sign of x, and 0 / 0 is NaN
DivPct(a, b) ==
    IF b = 0
    THEN IF a = 0 THEN NaN ELSE IF a > 0 THEN PosInf ELSE NegInf
    ELSE Num((a * 100) \div b)

-----------------------------------------------------------------------------
(* Text *)

T_all == << "a", "l", "l" >>
T_dask == << "d", "a", "s", "k" >>
T_daskstar == << "d", "a", "s", "k", "*" >>
T_das == << "d", "a", "s" >>
T_job == << "j", "o", "b" >>
T_Dask == << "D", "a", "s", "k" >>

\* `sub in s` of Python: s holds sub as a contiguous, case-sensitive run
Contains(s, sub) ==
    \E i \in 0..(Len(s) - Len(sub)) :
        \A j \in 1..Len(sub) : s[i + j] = sub[j]

\* The regular expressions of Python's re that the patterns here use: a
\* sequence of atoms, each an ordinary character or "." (any character),
\* optionally followed by "*" (zero or more repetitions of the atom).
RECURSIVE ReAtoms(_)
ReAtoms(p) ==
    IF p = << >> THEN << >>
    ELSE IF Len(p) >= 2 /\ p[2] = "*"
         THEN << [ch |-> p[1], star |-> TRUE] >> \o ReAtoms(SubSeq(p, 3, Len(p)))
         ELSE << [ch |-> p[1], star |-> FALSE] >> \o ReAtoms(SubSeq(p, 2, Len(p)))

\* re.compile raises re.error ("nothing to repeat") on a "*" with no atom before it
ReValid(p) == \A i \in 1..Len(ReAtoms(p)) : ReAtoms(p)[i].ch # "*"

AtomMatches(a, c) == a.ch = "." \/ a.ch = c

\* the atoms from i on match a run of s that starts at position j
RECURSIVE ReMatchHere(_, _, _, _)
ReMatchHere(atoms, i, s, j) ==
    IF i > Len(atoms) THEN TRUE
    ELSE IF atoms[i].star
         THEN \E n \in 0..(Len(s) - j + 1) :
                  /\ \A m \in j..(j + n - 1) : AtomMatches(atoms[i], s[m])
                  /\ ReMatchHere(atoms, i + 1, s, j + n)
         ELSE /\ j <= Len(s)
              /\ AtomMatches(atoms[i], s[j])
              /\ ReMatchHere(atoms, i + 1, s, j + 1)

\* re.search(p, s) finds a match
ReSearch(p, s) == \E j \in 1..(Len(s) + 1) : ReMatchHere(ReAtoms(p), 1, s, j)

\* StrContains with regex=False: the pattern taken as a literal substring
StrContainsLiteral(s, pat) == Contains(s, pat)

\* Series.str.contains(pat) of pandas on one string: regex=True is the default,
\* so the pattern is a regular expression handed to re.search
StrContains(s, pat) == ReSearch(pat, s)

-----------------------------------------------------------------------------
(* The export: columns, cells, lines *)

\* the header the pipeline expects from qhist
FullHeader ==
    { "User", "Queue", "Req Mem", "Used Mem", "Job Start", "Job End",
      "Elapsed", "Job Name", "Avg CPU" }

\* the headers of the generated exports: the full one, and one column short
Headers ==
    { FullHeader } \cup
    { FullHeader \ {c} : c \in { "Elapsed", "Job Name", "Queue", "Job Start", "Req Mem", "Avg CPU" } }

\* One data line.  na: the columns whose cell is "-"; bad: the columns whose
\* cell cannot be read as the column's type.  Times are seconds.
BaseRow ==
    [ name |-> T_dask, queue |-> "regular", user |-> "alice", req |-> 16,
      used |-> 4, start |-> 0, end |-> 3600, cpu |-> 50, na |-> {}, bad |-> {} ]

Rows ==
    { [BaseRow EXCEPT !.name = n] : n \in { T_dask, T_das, T_job, T_Dask } }
    \cup { [BaseRow EXCEPT !.na = {c}] : c \in { "Job Name", "Queue", "Avg CPU", "Job End" } }
    \cup { [BaseRow EXCEPT !.queue = "economy"],
           [BaseRow EXCEPT !.user = "bob", !.end = 7200, !.cpu = 100] }
    \cup { [BaseRow EXCEPT !.req = m[1], !.used = m[2]] :
             m \in { << 16, 0 >>, << 4, 8 >>, << 0, 0 >>, << 0, 4 >>, << 4, 4 >> } }

BadTimeRow == [BaseRow EXCEPT !.bad = { "Job End" }]

\* a data line whose Req Mem cell is text that is no number
BadNumRow == [BaseRow EXCEPT !.bad = { "Req Mem" }]

\* the tables of at most n data lines
Tables(n) == UNION { [1..m -> Rows] : m \in 0..n }

Banner == [kind |-> "banner"]      \* a line that starts with /glade/u/apps/opt/
Fragment == [kind |-> "text"]      \* any other line that is not part of the table
Marker == [kind |-> "marker"]      \* a line with "No jobs found matching search criteria"
HeaderLine(cols) == [kind |-> "header", cols |-> cols]
RowLine(r) == [kind |-> "row", row |-> r, extra |-> FALSE]
ExtraLine(r) == [kind |-> "row", row |-> r, extra |-> TRUE]   \* one field too many

RowLines(t) == [i \in 1..Len(t) |-> RowLine(t[i])]

\* The files run_qhist can find at args.filename.  After a header every line
\* is a data line, and a line with a field too many is never the first data
\* line (pandas would read that as an index column).
Files ==
    { [exists |-> FALSE, lines |-> << >>] }
    \cup { [exists |-> TRUE, lines |-> l] : l \in
             { << >>, << Marker >>, << Banner >>, << Banner, Marker >> } }
    \cup { [exists |-> TRUE, lines |-> << HeaderLine(FullHeader) >> \o RowLines(t)] :
             t \in Tables(MaxRows) }
    \cup { [exists |-> TRUE,
            lines |-> << Banner, Fragment, HeaderLine(FullHeader) >> \o RowLines(t)] :
             t \in Tables(1) }
    \cup { [exists |-> TRUE, lines |-> << HeaderLine(h) >> \o RowLines(t)] :
             h \in Headers, t \in { << >>, << BaseRow >>, << [BaseRow EXCEPT !.name = T_job] >> } }
    \cup { [exists |-> TRUE,
            lines |-> << HeaderLine(FullHeader), RowLine(BaseRow), ExtraLine(BaseRow) >>],
           [exists |-> TRUE,
            lines |-> << HeaderLine(FullHeader), RowLine(BaseRow), RowLine(BadTimeRow) >>],
           [exists |-> TRUE,
            lines |-> << HeaderLine(FullHeader), RowLine(BaseRow), RowLine(BadNumRow) >>] }

Workers == { T_all, T_dask, T_daskstar }

\* os.path.dirname(args.filename), line 186: a directory that exists, one
\* that does not, or '' for a file name with no directory part
Dirnames == { "exists", "missing", "empty" }

\* the exports a run is given when the directory is not an existing one
DirFiles ==
    { [exists |-> FALSE, lines |-> << >>],
      [exists |-> TRUE, lines |-> << HeaderLine(FullHeader), RowLine(BaseRow) >>] }
Users == { "all", "alice" }

NoTable == [cols |-> {}, rows |-> << >>]
Unset == [set |-> FALSE, cols |-> {}, rows |-> << >>]
NoBin == [values |-> << >>, bins |-> << >>]
NoBinOut == [done |-> FALSE, bin |-> << >>, pct |-> << >>, shown |-> << >>]
NoCsg ==
    [ done |-> FALSE, grouped |-> << >>, agg |-> << >>, shown |-> << >>,
      saved |-> FALSE, csv |-> << >> ]
NoStats == [done |-> FALSE, raised |-> "none", stats |-> << >>]
NoFilterIn == [worker |-> T_all, rows |-> << >>]
NoFilterOut == [applied |-> 0, rows |-> << >>, before |-> << >>]

\* None, as against any text: a text is a sequence of characters
None == << "None" >>
\* args.days: None, or an int
NoDays == [set |-> FALSE, n |-> 0]
NoDatesIn ==
    [ start_date |-> None, end_date |-> None, days |-> NoDays, today |-> 1,
      error_returns |-> FALSE ]
NoDatesOut ==
    [ done |-> FALSE, start_date |-> None, end_date |-> None, errors |-> << >>,
      raised |-> "none" ]

-----------------------------------------------------------------------------
(* Ingestion: _read_all_jobs, lines 116-163 *)

\* "No jobs found matching search criteria" in content
HasMarker(lines) == \E i \in 1..Len(lines) : lines[i].kind = "marker"

\* StripBanner that drops the banner line alone
StripBannerLine(lines) ==
    IF lines # << >> /\ lines[1].kind = "banner"
    THEN SubSeq(lines, 2, Len(lines))
    ELSE lines

\* lines 133-136: the first two lines go when the first starts with the prefix
StripBanner(lines) ==
    IF lines # << >> /\ lines[1].kind = "banner"
    THEN SubSeq(lines, 3, Len(lines))
    ELSE lines

\* the file is a table with no data line, the one input on which the typing
\* of an empty frame's date columns shows
NoDataLines(f) ==
    /\ f.exists
    /\ ~HasMarker(f.lines)
    /\ Len(StripBanner(f.lines)) = 1

\* the column names read_csv takes from the first line; a first line that is
\* not the header names none of the columns the pipeline asks for
CsvCols(lines) == IF lines[1].kind = "header" THEN lines[1].cols ELSE {}

\* pd.read_csv(text): the exception it raises, or "none"
ReadCsvError(lines) ==
    IF lines = << >> THEN "EmptyDataError"
    ELSE IF \E i \in 2..Len(lines) : lines[i].kind = "row" /\ lines[i].extra
         THEN "ParserError"
         ELSE "none"

\* pd.read_csv(text, na_values='-', parse_dates=date_columns) on a text the
\* plain read accepted: a date column the header lacks is a ValueError
ReadCsvDatesError(lines) ==
    IF { "Job Start", "Job End" } \subseteq CsvCols(lines) THEN "none" ELSE "ValueError"

\* the data lines as rows indexed from 0; a cell outside the header does not
\* exist, so it is neither missing nor unreadable
ParsedRows(lines) ==
    [ i \in 1..(Len(lines) - 1) |->
        [ idx |-> i - 1,
          name |-> lines[i + 1].row.name, queue |-> lines[i + 1].row.queue,
          user |-> lines[i + 1].row.user, req |-> lines[i + 1].row.req,
          used |-> lines[i + 1].row.used, start |-> lines[i + 1].row.start,
          end |-> lines[i + 1].row.end, cpu |-> lines[i + 1].row.cpu,
          na |-> lines[i + 1].row.na \cap CsvCols(lines),
          bad |-> lines[i + 1].row.bad \cap CsvCols(lines) ] ]

\* line 155: (Job End - Job Start).dt.total_seconds() / 3600.  A date column
\* with an unreadable cell stays a column of strings and the subtraction is a
\* TypeError; a frame with no rows has untyped columns in the pandas builds
\* where libEmptyDt is false, and .dt is then an AttributeError.
ElapsedError(rows, emptyDt) ==
    IF \E i \in 1..Len(rows) : rows[i].bad \cap { "Job Start", "Job End" } # {}
    THEN "TypeError"
    ELSE IF rows = << >> /\ ~emptyDt THEN "AttributeError" ELSE "none"

ElapsedH(r) ==
    IF r.na \cap { "Job Start", "Job End" } # {} THEN NaN
    ELSE Num((r.end - r.start) \div 3600)

WithElapsed(rows) == [i \in 1..Len(rows) |-> rows[i] @@ [elapsedH |-> ElapsedH(rows[i])]]

-----------------------------------------------------------------------------
(* The job filter: _read_all_jobs, lines 169-206 *)

\* line 169: jobs.dropna(subset=["Job Name"], inplace=True)
HasJobName(r) == "Job Name" \notin r.na
DropNaJobName(rows) == SelectSeq(rows, HasJobName)

\* what lines 169-174 raise, or "none": a header without Job Name is a
\* KeyError; a Job Name column with no string in it is a column of floats,
\* which has no .str; a pattern that is no regular expression is a re.error
NameStageError(cols, rows, worker) ==
    IF "Job Name" \notin cols THEN "KeyError"
    ELSE IF worker = T_all THEN "none"
    ELSE IF \A i \in 1..Len(rows) : ~HasJobName(rows[i]) THEN "AttributeError"
    ELSE IF ~ReValid(worker) THEN "re.error"
    ELSE "none"

\* lines 171-178: the rows whose Job Name the pattern selects
SelectWorker(rows, worker) ==
    IF worker # T_all
    THEN LET Keep(r) == StrContains(r.name, worker) IN SelectSeq(rows, Keep)
    ELSE rows

\* line 184: dask_jobs[dask_jobs["Queue"] != "economy"]; a missing Queue
\* is NaN, which differs from "economy"
NotEconomy(r) == "Queue" \in r.na \/ r.queue # "economy"

\* DropEconomy with the comparison lost: the queue is not looked at
KeepEconomy(rows) == rows

DropEconomy(rows) == SelectSeq(rows, NotEconomy)

\* line 186: dask_jobs.dropna(): no missing cell, no missing Elapsed (h) and,
\* in a table that has the column, no missing Unused Mem (%)
Complete(r) ==
    /\ r.na = {}
    /\ r.elapsedH.k # "nan"
    /\ "unusedPct" \in DOMAIN r => r.unusedPct.k # "nan"
DropNa(rows) == SelectSeq(rows, Complete)

\* lines 188-193: astype of Req Mem, Used Mem and Elapsed to float; a
\* column the frame lacks is a KeyError, a cell that is no number a ValueError
AstypeError(cols, rows) ==
    IF ~({ "Req Mem", "Used Mem", "Elapsed" } \subseteq cols) THEN "KeyError"
    ELSE IF \E i \in 1..Len(rows) : rows[i].bad \cap { "Req Mem", "Used Mem", "Elapsed" } # {}
         THEN "ValueError"
         ELSE "none"

\* NoJobsLeft with the check of line 196 left out
NoJobsLeftUnchecked(rows) == FALSE

\* line 196: len(dask_jobs) == 0
NoJobsLeft(rows) == Len(rows) = 0

\* lines 201-206: Unused Mem = Req Mem - Used Mem and
\* Unused Mem (%) = Unused Mem / Req Mem * 100.0
Derived(r) ==
    [ unused |-> r.req - r.used, unusedPct |-> DivPct(r.req - r.used, r.req) ] @@ r

WithDerived(rows) == [i \in 1..Len(rows) |-> Derived(rows[i])]

-----------------------------------------------------------------------------
(* bin_summary, lines 64-86 *)

DefaultBins == << 0, 25, 50, 75, 100 >>

\* numpy's bins.searchsorted(x, side="right"): how many boundaries are <= x;
\* NaN sorts after every boundary
SearchSortedRight(bins, x) ==
    IF x.k = "nan" THEN Len(bins)
    ELSE Cardinality({ i \in 1..Len(bins) : FLe(Num(bins[i]), x) })

\* CutId with right=True: buckets open on the left and closed on the right
CutIdRightClosed(bins, x) ==
    LET id == IF x.k = "nan" THEN Len(bins)
              ELSE Cardinality({ i \in 1..Len(bins) : FLt(Num(bins[i]), x) })
    IN  IF id = Len(bins) THEN 0 ELSE id

\* pd.cut(x, bins, include_lowest=True, right=False) on one value: the
\* number of its bucket, 1 .. Len(bins)-1, or 0 for no bucket (NaN).  With
\* right=False the ids come from searchsorted(side="right"); include_lowest
\* sets the id of a value equal to bins[0] to 1; ids 0 and Len(bins) are NaN.
CutId(bins, x) ==
    LET id == IF x.k = "num" /\ x.v = bins[1] THEN 1 ELSE SearchSortedRight(bins, x)
    IN  IF x.k = "nan" \/ id = Len(bins) \/ id = 0 THEN 0 ELSE id

Cut(bins, values) == [i \in 1..Len(values) |-> CutId(bins, values[i])]

CountIn(ids, b) == Cardinality({ i \in 1..Len(ids) : ids[i] = b })

\* count / base * 100 rounded to two decimals as "{:.2f}" prints it, in
\* hundredths of a percent; 0 / 0 is NaN
PctOf(count, base) ==
    IF base = 0 THEN NaN
    ELSE Num((count * 20000 + base) \div (2 * base))

\* the base of value_counts(normalize=True): the values that have a bucket
\* (dropna=True leaves the NaN bucket out of the counts and of their sum)
CountBase(ids) == Cardinality({ i \in 1..Len(ids) : ids[i] # 0 })

\* line 76: df["bin"].value_counts(normalize=True) * 100, one entry per label
Percentages(bins, ids) ==
    [b \in 1..(Len(bins) - 1) |-> PctOf(CountIn(ids, b), CountBase(ids))]

\* ShownOrder with ascending=True: the labels from the first bucket up
ShownOrderAscending(bins) == [i \in 1..(Len(bins) - 1) |-> i]

\* line 79: sort_index(ascending=False): the labels from the last bucket down
ShownOrder(bins) == [i \in 1..(Len(bins) - 1) |-> Len(bins) - i]

BinSummary(values, bins) ==
    [ done |-> TRUE,
      bin |-> Cut(bins, values),
      pct |-> Percentages(bins, Cut(bins, values)),
      shown |-> ShownOrder(bins) ]

-----------------------------------------------------------------------------
(* The run: run_qhist, lines 178-201 of dask_mem_usage.py *)

Init ==
    /\ args \in [worker : Workers, user : Users, table : BOOLEAN, dirname : Dirnames]
    /\ file \in Files
    /\ args.dirname # "exists" => file \in DirFiles
    /\ libEmptyDt \in IF NoDataLines(file) THEN BOOLEAN ELSE { TRUE }
    /\ pc = "run_shell_code"
    /\ jobs = NoTable
    /\ local_dj = NoTable
    /\ dask_jobs = Unset
    /\ warned = << >>
    /\ printed = << >>
    /\ outcome = "running"
    /\ stopped = "no"
    /\ calls = << >>
    /\ vd_in = NoDatesIn
    /\ vd_out = NoDatesOut
    /\ bs_in = NoBin
    /\ bs_out = NoBinOut
    /\ csg = NoCsg
    /\ st_in = << >>
    /\ st_out = NoStats
    /\ jf_in = NoFilterIn
    /\ jf_out = NoFilterOut

\* an exception leaves run_qhist
Raise(e) ==
    /\ pc' = "done"
    /\ outcome' = e

\* warnings.warn(msg) and return from _read_all_jobs: __init__ returns and
\* run_qhist goes on to line 196
WarnAndReturn(msg) ==
    /\ warned' = Append(warned, msg)
    /\ stopped' = "early"
    /\ pc' = "dask_user_report"
    /\ UNCHANGED outcome

\* One call of run_qhist: the callable and the attributes of args it is
\* handed, in order.
Call(op, with) == [op |-> op, with |-> with]

\* lines 186-193.  os.path.exists(filename_directory) is False for a directory
\* that is not there and for '', the dirname of a bare file name; os.makedirs
\* creates the former and raises FileNotFoundError on ''.  Then
\* QhistRunner(...).run_shell_code(verbose): the command has written its
\* output to args.filename, or not.
RunShellCode ==
    /\ pc = "run_shell_code"
    /\ IF args.dirname = "empty"
       THEN /\ calls' = Append(calls, Call("os.makedirs", << "filename_directory" >>))
            /\ Raise("FileNotFoundError")
       ELSE /\ calls' = calls
                      \o ( IF args.dirname = "missing"
                           THEN << Call("os.makedirs", << "filename_directory" >>) >>
                           ELSE << >> )
                      \o << Call("QhistRunner", << "start_date", "end_date", "filename", "user" >>),
                            Call("run_shell_code", << "verbose" >>) >>
            /\ pc' = "read"
            /\ UNCHANGED outcome
    /\ UNCHANGED << args, libEmptyDt, file, jobs, local_dj, dask_jobs, warned,
                    printed, stopped, pureVars, csg >>

\* _read_all_jobs, lines 116-163.  The two print calls of lines 157-158 show
\* the frame just read; they are no report section and `printed` does not
\* record them.
ReadFile ==
    /\ pc = "read"
    /\ LET lines == StripBanner(file.lines)
           rows == ParsedRows(lines)
       IN  IF ~file.exists
           THEN WarnAndReturn("File not found") /\ UNCHANGED jobs
           ELSE IF HasMarker(file.lines)
           THEN WarnAndReturn("No jobs found matching search criteria!") /\ UNCHANGED jobs
           ELSE IF ReadCsvError(lines) # "none"
           THEN Raise(ReadCsvError(lines)) /\ UNCHANGED << jobs, warned, stopped >>
           ELSE IF ReadCsvDatesError(lines) # "none"
           THEN WarnAndReturn("Error reading CSV") /\ UNCHANGED jobs
           ELSE IF ElapsedError(rows, libEmptyDt) # "none"
           THEN Raise(ElapsedError(rows, libEmptyDt)) /\ UNCHANGED << jobs, warned, stopped >>
           ELSE /\ jobs' = [cols |-> CsvCols(lines) \cup { "Elapsed (h)" },
                            rows |-> WithElapsed(rows)]
                /\ IF Len(rows) = 0
                   THEN WarnAndReturn("Warning! No jobs found for this user and this time period!")
                   ELSE /\ pc' = "select"
                        /\ UNCHANGED << warned, stopped, outcome >>
    /\ UNCHANGED << args, libEmptyDt, file, local_dj, dask_jobs, printed, pureVars, csg >>

\* line 195, JobsSummary(args.filename, args.worker, args.verbose): __init__
\* runs _read_all_jobs
Ingest ==
    /\ ReadFile
    /\ calls' = Append(calls, Call("JobsSummary", << "filename", "worker", "verbose" >>))

\* _read_all_jobs, lines 169-178
SelectJobs ==
    /\ pc = "select"
    /\ IF NameStageError(jobs.cols, jobs.rows, args.worker) # "none"
       THEN /\ Raise(NameStageError(jobs.cols, jobs.rows, args.worker))
            /\ jobs' = IF "Job Name" \in jobs.cols
                       THEN [jobs EXCEPT !.rows = DropNaJobName(jobs.rows)]
                       ELSE jobs
            /\ UNCHANGED local_dj
       ELSE /\ jobs' = [jobs EXCEPT !.rows = DropNaJobName(jobs.rows)]
            /\ local_dj' = [cols |-> jobs.cols,
                            rows |-> SelectWorker(DropNaJobName(jobs.rows), args.worker)]
            /\ pc' = "filter"
            /\ UNCHANGED outcome
    /\ UNCHANGED << args, libEmptyDt, file, dask_jobs, warned, printed, stopped, pureVars,
                    csg, calls >>

\* _read_all_jobs, lines 184-193
FilterJobs ==
    /\ pc = "filter"
    /\ IF "Queue" \notin local_dj.cols
       THEN Raise("KeyError") /\ UNCHANGED local_dj
       ELSE LET kept == DropNa(DropEconomy(local_dj.rows))
            IN  /\ local_dj' = [local_dj EXCEPT !.rows = kept]
                /\ IF AstypeError(local_dj.cols, kept) # "none"
                   THEN Raise(AstypeError(local_dj.cols, kept))
                   ELSE pc' = "derive" /\ UNCHANGED outcome
    /\ UNCHANGED << args, libEmptyDt, file, jobs, dask_jobs, warned, printed,
                    stopped, pureVars, csg, calls >>

\* as DeriveJobs, but self.dask_jobs is assigned before the rows are counted
DeriveJobsEager ==
    /\ pc = "derive"
    /\ dask_jobs' = [set |-> TRUE,
                     cols |-> local_dj.cols \cup { "Unused Mem", "Unused Mem (%)" },
                     rows |-> WithDerived(local_dj.rows)]
    /\ IF NoJobsLeft(local_dj.rows)
       THEN /\ warned' = Append(warned, "Warning! No jobs found for this user and this time period!")
            /\ Raise("SystemExit")
            /\ UNCHANGED << local_dj, stopped >>
       ELSE /\ local_dj' = [cols |-> local_dj.cols \cup { "Unused Mem", "Unused Mem (%)" },
                            rows |-> WithDerived(local_dj.rows)]
            /\ stopped' = "set"
            /\ pc' = "dask_user_report"
            /\ UNCHANGED << warned, outcome >>
    /\ UNCHANGED << args, libEmptyDt, file, jobs, printed, pureVars, csg, calls >>

\* _read_all_jobs, lines 196-235: with no row left, a warning and sys.exit();
\* else the derived columns, and the table becomes self.dask_jobs
DeriveJobs ==
    /\ pc = "derive"
    /\ IF NoJobsLeft(local_dj.rows)
       THEN /\ warned' = Append(warned, "Warning! No jobs found for this user and this time period!")
            /\ Raise("SystemExit")
            /\ UNCHANGED << local_dj, dask_jobs, stopped >>
       ELSE /\ local_dj' = [cols |-> local_dj.cols \cup { "Unused Mem", "Unused Mem (%)" },
                            rows |-> WithDerived(local_dj.rows)]
            /\ dask_jobs' = [set |-> TRUE,
                             cols |-> local_dj.cols \cup { "Unused Mem", "Unused Mem (%)" },
                             rows |-> WithDerived(local_dj.rows)]
            /\ stopped' = "set"
            /\ pc' = "dask_user_report"
            /\ UNCHANGED << warned, outcome >>
    /\ UNCHANGED << args, libEmptyDt, file, jobs, printed, pureVars, csg, calls >>

-----------------------------------------------------------------------------
(* The reports *)

ReportFields == << "Used Mem", "Req Mem", "Unused Mem (%)", "Avg CPU", "Elapsed (h)" >>

\* lines 284-289: the five print calls of one field
FieldPrints(f) == << f, "mean", "median", "min", "max" >>

\* the print calls of dask_user_report(table, verbose=False), in order
UserReportPrints(table) ==
    << "------------------------", "Number of jobs" >> \o
    ( IF table
      THEN << "table" >>
      ELSE FieldPrints(ReportFields[1]) \o FieldPrints(ReportFields[2]) \o
           FieldPrints(ReportFields[3]) \o FieldPrints(ReportFields[4]) \o
           FieldPrints(ReportFields[5]) \o
           << "------------------------", "Summary Overview:",
              "bin_summary Unused Mem (%)", "bin_summary Avg CPU" >> )

\* lines 70-73 as called last, at line 296: df["bin"] holds the buckets of Avg CPU
WithBin(rows) ==
    [i \in 1..Len(rows) |->
        [bin |-> CutId(DefaultBins, Num(rows[i].cpu))] @@ rows[i]]

\* line 196, dask_user_report(args.table, args.verbose), lines 247-296.  On
\* an object whose _read_all_jobs returned early self.dask_jobs does not
\* exist: the first use of it, at line 263, is an AttributeError.
UserReport ==
    /\ pc = "dask_user_report"
    /\ IF ~dask_jobs.set
       THEN Raise("AttributeError") /\ UNCHANGED << dask_jobs, printed >>
       ELSE IF \E i \in 1..Len(ReportFields) : ReportFields[i] \notin dask_jobs.cols
       THEN Raise("KeyError") /\ UNCHANGED << dask_jobs, printed >>
       ELSE /\ printed' = printed \o UserReportPrints(args.table)
            /\ dask_jobs' = IF args.table THEN dask_jobs
                            ELSE [dask_jobs EXCEPT !.cols = @ \cup { "bin" },
                                                   !.rows = WithBin(@)]
            /\ IF args.user = "all"
               THEN pc' = "dask_csg_report" /\ UNCHANGED outcome
               ELSE pc' = "done" /\ outcome' = "ok"
    /\ calls' = Append(calls, Call("dask_user_report", << "table", "verbose" >>))
    /\ UNCHANGED << args, libEmptyDt, file, jobs, local_dj, warned, stopped, pureVars, csg >>

-----------------------------------------------------------------------------
(* dask_csg_report, lines 310-347 *)

RECURSIVE GCD(_, _)
GCD(a, b) == IF b = 0 THEN a ELSE GCD(b, a % b)

Abs(n) == IF n < 0 THEN -n ELSE n

\* The means of the report are quotients of integers: the rational n / d in
\* lowest terms, with d > 0.
Q(n, d) == LET g == GCD(Abs(n), d) IN [n |-> n \div g, d |-> d \div g]

QMul(a, b) == Q(a.n * b.n, a.d * b.d)
QLe(a, b) == a.n * b.d <= b.n * a.d

RECURSIVE SumSeq(_)
SumSeq(s) == IF s = << >> THEN 0 ELSE s[1] + SumSeq(Tail(s))

\* Series.mean() of a column of finite numbers
Mean(xs) == Q(SumSeq(xs), Len(xs))

IsNum(x) == x.k = "num"
IsInfinite(x) == x.k \in { "inf", "ninf" }

\* The group mean of a column of floats, a record [k, q].  NaN cells are
\* skipped, and a group of NaN cells only has the mean NaN.  An infinite cell
\* makes the sum infinite, or NaN when infinities of both signs meet.  The
\* builds of pandas whose group mean is a compensated sum without a guard
\* (kahan) turn the sum into NaN as soon as a further value follows an
\* infinite one.
FMean(fs, kahan) ==
    LET vals == SelectSeq(fs, LAMBDA x : x.k # "nan")
        nums == SelectSeq(vals, IsNum)
        followed == \E i \in 1..Len(vals) : IsInfinite(vals[i]) /\ i < Len(vals)
        special(k) == [k |-> k, q |-> Q(0, 1)]
    IN  IF vals = << >> THEN special("nan")
        ELSE IF \E i \in 1..Len(vals) : IsInfinite(vals[i])
        THEN IF kahan /\ followed THEN special("nan")
             ELSE IF \A i \in 1..Len(vals) : vals[i].k # "inf" THEN special("ninf")
             ELSE IF \A i \in 1..Len(vals) : vals[i].k # "ninf" THEN special("inf")
             ELSE special("nan")
        ELSE [k |-> "num", q |-> Mean([i \in 1..Len(nums) |-> nums[i].v])]

\* the users of the exports in the order groupby sorts its keys
UserOrder == << "alice", "bob" >>

\* lines 310-322: the row of one user in grouped_dj: the means of the four
\* columns and grp.size()
GroupRow(rows, u, kahan) ==
    LET mine == SelectSeq(rows, LAMBDA r : r.user = u)
    IN  [ user |-> u,
          reqMean |-> Mean([i \in 1..Len(mine) |-> mine[i].req]),
          unusedMean |-> Mean([i \in 1..Len(mine) |-> mine[i].unused]),
          pctMean |-> FMean([i \in 1..Len(mine) |-> mine[i].unusedPct], kahan),
          elapsedMean |-> Mean([i \in 1..Len(mine) |-> mine[i].elapsedH.v]),
          count |-> Len(mine) ]

\* lines 310-323: groupby("User").agg(...), the size, reset_index()
Grouped(rows, kahan) ==
    LET present == SelectSeq(UserOrder, LAMBDA u : \E i \in 1..Len(rows) : rows[i].user = u)
    IN  [i \in 1..Len(present) |-> GroupRow(rows, present[i], kahan)]

\* NonNegative with > in place of >=
StrictlyPositive(m) == (m.k = "num" /\ m.q.n > 0) \/ m.k = "inf"

\* line 326: the comparison >= 0 on a mean; false on NaN and on -inf
NonNegative(m) == (m.k = "num" /\ m.q.n >= 0) \/ m.k = "inf"

\* line 326: grouped_dj[grouped_dj["Unused Mem (%)"] >= 0]
Threshold(grouped) == SelectSeq(grouped, LAMBDA g : NonNegative(g.pctMean))

\* WithCoreHour without the job count
WithCoreHourPerJob(g) ==
    g @@ [coreHour |-> QMul(g.unusedMean, g.elapsedMean)]

\* lines 329-331: Unused Mem * Elapsed (h) * Job ID
WithCoreHour(g) ==
    g @@ [coreHour |-> QMul(QMul(g.unusedMean, g.elapsedMean), Q(g.count, 1))]

\* lines 326-334: dj_agg
DjAgg(grouped) ==
    LET kept == Threshold(grouped)
    IN  [i \in 1..Len(kept) |-> WithCoreHour(kept[i])]

\* SortValuesDesc without the sort
Unsorted(rows) == rows

\* lines 339-341: sort_values(by=["Unused Core-Hour (GB.hr)"], ascending=False),
\* which returns a new table: the rows by decreasing key, equal keys in the
\* order they had
RECURSIVE SortValuesDesc(_)
SortValuesDesc(rows) ==
    IF rows = << >> THEN << >>
    ELSE LET front == SortValuesDesc(SubSeq(rows, 1, Len(rows) - 1))
             x == rows[Len(rows)]
             k == Cardinality({ i \in 1..Len(front) : QLe(x.coreHour, front[i].coreHour) })
         IN  SubSeq(front, 1, k) \o << x >> \o SubSeq(front, k + 1, Len(front))

\* dask_csg_report(report, save_csv) on the table rows: the sorted table is
\* what line 338 prints, and dj_agg is what line 346 writes
DaskCsgReport(rows, save_csv, kahan) ==
    [ done |-> TRUE,
      grouped |-> Grouped(rows, kahan),
      agg |-> DjAgg(Grouped(rows, kahan)),
      shown |-> SortValuesDesc(DjAgg(Grouped(rows, kahan))),
      saved |-> save_csv,
      csv |-> IF save_csv THEN DjAgg(Grouped(rows, kahan)) ELSE << >> ]

\* lines 198-201, dask_csg_report(report) with save_csv at its default True
CsgReport ==
    /\ pc = "dask_csg_report"
    /\ \E kahan \in BOOLEAN : csg' = DaskCsgReport(dask_jobs.rows, TRUE, kahan)
    /\ printed' = printed \o << "csg table", "Report saved to" >>
    /\ pc' = "done"
    /\ outcome' = "ok"
    /\ calls' = Append(calls, Call("dask_csg_report", << "report" >>))
    /\ UNCHANGED << args, libEmptyDt, file, jobs, local_dj, dask_jobs, warned,
                    stopped, pureVars >>

Next ==
    \/ RunShellCode
    \/ Ingest
    \/ SelectJobs
    \/ FilterJobs
    \/ DeriveJobs
    \/ UserReport
    \/ CsgReport

Spec == Init /\ [][Next]_vars

-----------------------------------------------------------------------------
(* bin_summary called on a column of its own *)

BinValues ==
    { Num(n) : n \in { -5, 0, 20, 50, 99, 100, 160 } } \cup { NaN }

BinBoundaries == { << 0, 50, 100 >>, DefaultBins }

BinInit ==
    /\ args = [worker |-> T_all, user |-> "all", table |-> FALSE, dirname |-> "exists"]
    /\ libEmptyDt = TRUE
    /\ file = [exists |-> FALSE, lines |-> << >>]
    /\ pc = "bin_summary"
    /\ jobs = NoTable
    /\ local_dj = NoTable
    /\ dask_jobs = Unset
    /\ warned = << >>
    /\ printed = << >>
    /\ outcome = "running"
    /\ stopped = "no"
    /\ calls = << >>
    /\ vd_in = NoDatesIn
    /\ vd_out = NoDatesOut
    /\ bs_in \in [values : UNION { [1..n -> BinValues] : n \in 0..MaxValues },
                  bins : BinBoundaries]
    /\ bs_out = NoBinOut
    /\ csg = NoCsg
    /\ st_in = << >>
    /\ st_out = NoStats
    /\ jf_in = NoFilterIn
    /\ jf_out = NoFilterOut

BinSummaryCall ==
    /\ pc = "bin_summary"
    /\ bs_out' = BinSummary(bs_in.values, bs_in.bins)
    /\ pc' = "done"
    /\ UNCHANGED << vd_in, vd_out, calls, args, libEmptyDt, file, jobs, local_dj, dask_jobs, warned,
                    printed, outcome, stopped, bs_in, csg, st_in, st_out,
                    jf_in, jf_out >>

BinNext == BinSummaryCall

BinSpec == BinInit /\ [][BinNext]_vars

-----------------------------------------------------------------------------
(* float64, the type of a numeric column *)

\* A finite float64 that is not negative is [k |-> "num", v |-> bits], bits
\* being the binary expansion of the number on a fixed grid: Width bits, bit
\* j of weight 2^(IntBits - j).  A float64 has a significand of Mantissa
\* bits: from its first 1 on, at most Mantissa bits are significant.  The
\* missing value is NaN.
Mantissa == 53
IntBits == 8       \* bits of the grid above the binary point
FracBits == 64     \* bits of the grid below the binary point
Width == IntBits + FracBits

Zeros(n) == [i \in 1..n |-> 0]

\* the four bits of one hexadecimal digit, and of a sequence of digits
Nibble(d) == << d \div 8, (d \div 4) % 2, (d \div 2) % 2, d % 2 >>

RECURSIVE HexToBits(_)
HexToBits(h) == IF h = << >> THEN << >> ELSE Nibble(h[1]) \o HexToBits(Tail(h))

\* the float64 that float.hex() writes 0x1.<hex>p<p>, hex being 13 digits
Dbl(p, hex) ==
    [ k |-> "num",
      v |-> Zeros(IntBits - 1 - p) \o << 1 >> \o HexToBits(hex)
                \o Zeros(Width - (IntBits - p) - 4 * Len(hex)) ]

D_0 == [k |-> "num", v |-> Zeros(Width)]
D_0_1 == Dbl(-4, << 9, 9, 9, 9, 9, 9, 9, 9, 9, 9, 9, 9, 10 >>)     \* 0.1
D_0_7 == Dbl(-1, << 6, 6, 6, 6, 6, 6, 6, 6, 6, 6, 6, 6, 6 >>)      \* 0.7
D_1 == Dbl(0, << 0, 0, 0, 0, 0, 0, 0, 0, 0, 0, 0, 0, 0 >>)         \* 1.0
D_3 == Dbl(1, << 8, 0, 0, 0, 0, 0, 0, 0, 0, 0, 0, 0, 0 >>)         \* 3.0

\* Bit vectors are added and divided in limbs of LimbBits bits, each limb
\* an integer.
LimbBits == 24

NibbleValue(v, i) == 8 * v[i] + 4 * v[i + 1] + 2 * v[i + 2] + v[i + 3]

\* the integer of the LimbBits bits of v from position i on
LimbValue(v, i) ==
    NibbleValue(v, i) * 2^20 + NibbleValue(v, i + 4) * 2^16 +
    NibbleValue(v, i + 8) * 2^12 + NibbleValue(v, i + 12) * 2^8 +
    NibbleValue(v, i + 16) * 2^4 + NibbleValue(v, i + 20)

\* the number of limbs that hold n bits
LimbCount(n) == (n + LimbBits - 1) \div LimbBits

\* the limbs of a bit vector, the most significant first; the vector is
\* extended with zeros on the left to a whole number of limbs
ToLimbs(v) ==
    LET m == LimbCount(Len(v))
        w == Zeros(m * LimbBits - Len(v)) \o v
    IN  [k \in 1..m |-> LimbValue(w, (k - 1) * LimbBits + 1)]

\* the last n bits of the number the limbs hold
FromLimbs(ls, n) ==
    LET pad == Len(ls) * LimbBits - n
    IN  [j \in 1..n |->
            (ls[(j + pad - 1) \div LimbBits + 1]
                 \div 2^(LimbBits - 1 - ((j + pad - 1) % LimbBits))) % 2]

\* a + b + c on limbs, the carry out dropped
RECURSIVE AddLimbs(_, _, _)
AddLimbs(a, b, c) ==
    IF a = << >> THEN << >>
    ELSE LET n == Len(a)
             t == a[n] + b[n] + c
         IN  AddLimbs(SubSeq(a, 1, n - 1), SubSeq(b, 1, n - 1), t \div 2^LimbBits)
                 \o << t % 2^LimbBits >>

\* the exact sum, and the exact difference of a >= b, of bit vectors of one
\* length
AddBits(a, b) == FromLimbs(AddLimbs(ToLimbs(a), ToLimbs(b), 0), Len(a))
SubBits(a, b) ==
    FromLimbs(AddLimbs(ToLimbs(a), [k \in 1..LimbCount(Len(b)) |-> 2^LimbBits - 1 - ToLimbs(b)[k]], 1),
              Len(a))

\* the quotient and the remainder of the division of limbs by n
RECURSIVE DivRemLimbs(_, _)
DivRemLimbs(a, n) ==
    IF a = << >> THEN [q |-> << >>, r |-> 0]
    ELSE LET prev == DivRemLimbs(SubSeq(a, 1, Len(a) - 1), n)
             cur == prev.r * 2^LimbBits + a[Len(a)]
         IN  [q |-> Append(prev.q, cur \div n), r |-> cur % n]

\* the quotient and the remainder of the division of a bit vector by n
DivRem(a, n) ==
    LET d == DivRemLimbs(ToLimbs(a), n)
    IN  [q |-> FromLimbs(d.q, Len(a)), r |-> d.r]

\* the position of the first 1 of a bit vector, 0 when there is none
FirstOne(v) ==
    IF \A j \in 1..Len(v) : v[j] = 0 THEN 0
    ELSE CHOOSE j \in 1..Len(v) : v[j] = 1 /\ \A i \in 1..(j - 1) : v[i] = 0

\* Rounding to float64, to nearest and ties to even, of the number v plus,
\* when sticky, a positive amount below the grid.
Round(v, sticky) ==
    LET p == FirstOne(v)
        last == p + Mantissa - 1
    IN  IF p = 0 \/ last >= Len(v) THEN v
        ELSE LET below == sticky \/ \E j \in (last + 2)..Len(v) : v[j] = 1
                 up == v[last + 1] = 1 /\ (below \/ v[last] = 1)
                 kept == [j \in 1..Len(v) |-> IF j <= last THEN v[j] ELSE 0]
                 unit == [j \in 1..Len(v) |-> IF j = last THEN 1 ELSE 0]
             IN  IF up THEN AddBits(kept, unit) ELSE kept

\* x + y, x - y for x >= y, x * 0.5 and x / n on float64
DAdd(x, y) == [k |-> "num", v |-> Round(AddBits(x.v, y.v), FALSE)]
DSub(x, y) == [k |-> "num", v |-> Round(SubBits(x.v, y.v), FALSE)]
DHalf(x) == [k |-> "num", v |-> << 0 >> \o SubSeq(x.v, 1, Len(x.v) - 1)]
DDivN(x, n) ==
    LET d == DivRem(x.v, n) IN [k |-> "num", v |-> Round(d.q, d.r # 0)]

\* x <= y on float64, false when either is NaN
DLe(x, y) ==
    /\ x.k = "num" /\ y.k = "num"
    /\ \/ x.v = y.v
       \/ \E j \in 1..Len(x.v) :
              /\ x.v[j] < y.v[j]
              /\ \A i \in 1..(j - 1) : x.v[i] = y.v[i]

-----------------------------------------------------------------------------
(* compute_summary_stats, lines 9-46 *)

\* the values of the column that are not missing, in the column's order
Present(col) == SelectSeq(col, LAMBDA x : x.k # "nan")

\* the sum of a column as numpy adds a short array: from the first value on
RECURSIVE DSum(_)
DSum(vals) ==
    IF vals = << >> THEN D_0
    ELSE DAdd(DSum(SubSeq(vals, 1, Len(vals) - 1)), vals[Len(vals)])

\* the "mean" of describe(): the sum of the values present over their number,
\* NaN when there is none
NanMean(col) ==
    IF Present(col) = << >> THEN NaN
    ELSE DDivN(DSum(Present(col)), Len(Present(col)))

\* the values in ascending order
RECURSIVE SortAsc(_)
SortAsc(vals) ==
    IF vals = << >> THEN << >>
    ELSE LET front == SortAsc(SubSeq(vals, 1, Len(vals) - 1))
             x == vals[Len(vals)]
             k == Cardinality({ i \in 1..Len(front) : DLe(front[i], x) })
         IN  SubSeq(front, 1, k) \o << x >> \o SubSeq(front, k + 1, Len(front))

\* ColumnMin as the first value of the column
ColumnFirst(col) == IF Present(col) = << >> THEN NaN ELSE Present(col)[1]

\* the "min" and "max" of describe()
ColumnMin(col) == IF Present(col) = << >> THEN NaN ELSE SortAsc(Present(col))[1]
ColumnMax(col) ==
    IF Present(col) = << >> THEN NaN ELSE SortAsc(Present(col))[Len(Present(col))]

\* The "50%" of describe(), quantile(0.5) with linear interpolation: the
\* middle value of an odd number of values; between the two middle values a
\* and b of an even number, b - (b - a) * 0.5 in the builds of numpy that
\* interpolate with _lerp, and a * 0.5 + b * 0.5 in the builds before.
Quantile50(col, lerp) ==
    LET s == SortAsc(Present(col))
        n == Len(s)
    IN  IF n = 0 THEN NaN
        ELSE IF n % 2 = 1 THEN s[(n + 1) \div 2]
        ELSE IF lerp
             THEN DSub(s[n \div 2 + 1], DHalf(DSub(s[n \div 2 + 1], s[n \div 2])))
             ELSE DAdd(DHalf(s[n \div 2]), DHalf(s[n \div 2 + 1]))

\* lines 29-46: the inner dictionary of result_dict
ComputeSummaryStats(col, lerp) ==
    [ mean |-> NanMean(col),
      median |-> Quantile50(col, lerp),
      min |-> ColumnMin(col),
      max |-> ColumnMax(col) ]

\* the values of the columns compute_summary_stats is called on
StatValues == { D_0, D_0_1, D_0_7, D_1, D_3, NaN }

StatsInit ==
    /\ args = [worker |-> T_all, user |-> "all", table |-> FALSE, dirname |-> "exists"]
    /\ libEmptyDt = TRUE
    /\ file = [exists |-> FALSE, lines |-> << >>]
    /\ pc = "compute_summary_stats"
    /\ jobs = NoTable
    /\ local_dj = NoTable
    /\ dask_jobs = Unset
    /\ warned = << >>
    /\ printed = << >>
    /\ outcome = "running"
    /\ stopped = "no"
    /\ calls = << >>
    /\ vd_in = NoDatesIn
    /\ vd_out = NoDatesOut
    /\ bs_in = NoBin
    /\ bs_out = NoBinOut
    /\ csg = NoCsg
    /\ st_in \in UNION { [1..n -> StatValues] : n \in 0..MaxColumn }
    /\ st_out = NoStats
    /\ jf_in = NoFilterIn
    /\ jf_out = NoFilterOut

\* compute_summary_stats(df, field) on a column of floats: no line of it
\* raises, whatever the column holds, and it returns the dictionary
ComputeSummaryStatsCall ==
    /\ pc = "compute_summary_stats"
    /\ \E lerp \in BOOLEAN :
           st_out' = [done |-> TRUE, raised |-> "none",
                      stats |-> ComputeSummaryStats(st_in, lerp)]
    /\ pc' = "done"
    /\ UNCHANGED << vd_in, vd_out, calls, args, libEmptyDt, file, jobs, local_dj, dask_jobs, warned,
                    printed, outcome, stopped, bs_in, bs_out, csg, st_in,
                    jf_in, jf_out >>

StatsNext == ComputeSummaryStatsCall

StatsSpec == StatsInit /\ [][StatsNext]_vars

-----------------------------------------------------------------------------
(* The job filter, lines 169-206, applied to a table of its own *)

\* lines 169-206 on a table with the full header: the rows it leaves, with
\* the derived columns
JobFilter(rows, worker) ==
    WithDerived(DropNa(DropEconomy(SelectWorker(DropNaJobName(rows), worker))))

\* what lines 169-199 raise on the table, or "none"
JobFilterError(rows, worker) ==
    IF NameStageError(FullHeader, rows, worker) # "none"
    THEN NameStageError(FullHeader, rows, worker)
    ELSE IF AstypeError(FullHeader, DropNa(DropEconomy(SelectWorker(DropNaJobName(rows), worker)))) # "none"
    THEN "ValueError"
    ELSE IF NoJobsLeft(JobFilter(rows, worker)) THEN "SystemExit"
    ELSE "none"

\* the tables read from an export with the full header, with Elapsed (h)
IngestedTables ==
    { WithElapsed(ParsedRows(<< HeaderLine(FullHeader) >> \o RowLines(t))) :
          t \in Tables(MaxRows) }

FilterInit ==
    /\ args = [worker |-> T_all, user |-> "all", table |-> FALSE, dirname |-> "exists"]
    /\ libEmptyDt = TRUE
    /\ file = [exists |-> FALSE, lines |-> << >>]
    /\ pc = "job_filter"
    /\ jobs = NoTable
    /\ local_dj = NoTable
    /\ dask_jobs = Unset
    /\ warned = << >>
    /\ printed = << >>
    /\ outcome = "running"
    /\ stopped = "no"
    /\ calls = << >>
    /\ vd_in = NoDatesIn
    /\ vd_out = NoDatesOut
    /\ bs_in = NoBin
    /\ bs_out = NoBinOut
    /\ csg = NoCsg
    /\ st_in = << >>
    /\ st_out = NoStats
    /\ jf_in \in [worker : Workers, rows : IngestedTables]
    /\ jf_out = NoFilterOut

\* one application of the filter: the first to the ingested table, the
\* second to the table the first has left
ApplyJobFilter ==
    /\ pc = "job_filter"
    /\ LET table == IF jf_out.applied = 0 THEN jf_in.rows ELSE jf_out.rows
       IN  IF JobFilterError(table, jf_in.worker) # "none"
           THEN /\ Raise(JobFilterError(table, jf_in.worker))
                /\ UNCHANGED jf_out
           ELSE /\ jf_out' = [applied |-> jf_out.applied + 1,
                              rows |-> JobFilter(table, jf_in.worker),
                              before |-> table]
                /\ IF jf_out.applied = 1
                   THEN pc' = "done" /\ outcome' = "ok"
                   ELSE UNCHANGED << pc, outcome >>
    /\ UNCHANGED << vd_in, vd_out, calls, args, libEmptyDt, file, jobs, local_dj, dask_jobs, warned,
                    printed, stopped, bs_in, bs_out, csg, st_in, st_out, jf_in >>

FilterNext == ApplyJobFilter

FilterSpec == FilterInit /\ [][FilterNext]_vars

-----------------------------------------------------------------------------
(* validate_dates, lines 137-176 of dask_mem_usage.py.  A date is its
   proleptic Gregorian ordinal, day 1 being 0001-01-01, as datetime counts;
   the text of a date is what strftime('%Y%m%d') writes and what
   strptime(..., "%Y%m%d") reads. *)

MaxDays == 3      \* the largest args.days handed to validate_dates

IsLeap(y) == y % 4 = 0 /\ (y % 100 # 0 \/ y % 400 = 0)

DaysInMonth(y, m) ==
    IF m = 2 THEN (IF IsLeap(y) THEN 29 ELSE 28)
    ELSE IF m \in { 4, 6, 9, 11 } THEN 30 ELSE 31

DaysBeforeYear(y) ==
    LET p == y - 1 IN p * 365 + (p \div 4) - (p \div 100) + (p \div 400)

RECURSIVE DaysBeforeMonth(_, _)
DaysBeforeMonth(y, m) ==
    IF m = 1 THEN 0 ELSE DaysBeforeMonth(y, m - 1) + DaysInMonth(y, m - 1)

ToOrdinal(y, m, d) == DaysBeforeYear(y) + DaysBeforeMonth(y, m) + d

\* datetime.max is 9999-12-31
MaxOrdinal == ToOrdinal(9999, 12, 31)

FromOrdinal(n) ==
    LET y == CHOOSE c \in (n \div 366)..((n \div 365) + 1) :
                 c >= 1 /\ DaysBeforeYear(c) < n /\ n <= DaysBeforeYear(c + 1)
        m == CHOOSE c \in 1..12 :
                 /\ ToOrdinal(y, c, 1) <= n
                 /\ n <= ToOrdinal(y, c, DaysInMonth(y, c))
    IN  [y |-> y, m |-> m, d |-> n - ToOrdinal(y, m, 1) + 1]

DigitChars == << "0", "1", "2", "3", "4", "5", "6", "7", "8", "9" >>

IsDigit(c) == \E i \in 1..10 : DigitChars[i] = c
DigitValue(c) == (CHOOSE i \in 1..10 : DigitChars[i] = c) - 1

\* n written with w digits, zero padded
RECURSIVE Padded(_, _)
Padded(n, w) ==
    IF w = 0 THEN << >> ELSE Append(Padded(n \div 10, w - 1), DigitChars[(n % 10) + 1])

\* date.strftime('%Y%m%d'), for a year of four digits
StrfTime(n) ==
    LET t == FromOrdinal(n) IN Padded(t.y, 4) \o Padded(t.m, 2) \o Padded(t.d, 2)

\* The directive %m of strptime is the pattern 1[0-2]|0[1-9]|[1-9]: the lengths
\* of its alternatives that match s at p, in the order the matcher tries them.
MonthMatches(s, p) ==
    LET two == p + 1 <= Len(s)
        one == p <= Len(s)
    IN  ( IF two /\ s[p] = "1" /\ s[p + 1] \in { "0", "1", "2" } THEN << 2 >> ELSE << >> )
        \o ( IF two /\ s[p] = "0" /\ IsDigit(s[p + 1]) /\ s[p + 1] # "0" THEN << 2 >> ELSE << >> )
        \o ( IF one /\ IsDigit(s[p]) /\ s[p] # "0" THEN << 1 >> ELSE << >> )

\* the directive %d, 3[01]|[12]\d|0[1-9]|[1-9]| [1-9]
DayMatches(s, p) ==
    LET two == p + 1 <= Len(s)
        one == p <= Len(s)
    IN  ( IF two /\ s[p] = "3" /\ s[p + 1] \in { "0", "1" } THEN << 2 >> ELSE << >> )
        \o ( IF two /\ s[p] \in { "1", "2" } /\ IsDigit(s[p + 1]) THEN << 2 >> ELSE << >> )
        \o ( IF two /\ s[p] = "0" /\ IsDigit(s[p + 1]) /\ s[p + 1] # "0" THEN << 2 >> ELSE << >> )
        \o ( IF one /\ IsDigit(s[p]) /\ s[p] # "0" THEN << 1 >> ELSE << >> )
        \o ( IF two /\ s[p] = " " /\ IsDigit(s[p + 1]) /\ s[p + 1] # "0" THEN << 2 >> ELSE << >> )

\* the digits of s from p to q as a number; a blank counts for nothing
RECURSIVE Number(_, _, _)
Number(s, p, q) ==
    IF q < p THEN 0
    ELSE Number(s, p, q - 1) * 10 + (IF s[q] = " " THEN 0 ELSE DigitValue(s[q]))

NotADate == [ok |-> FALSE, ordinal |-> 0]

\* datetime.strptime(s, "%Y%m%d"): four digits of year, then the first month
\* alternative after which a day alternative matches, and the first such day
\* alternative; text left over, a year 0 or a day the month does not have is
\* a ValueError.
StrpTime(s) ==
    IF Len(s) < 4 \/ \E i \in 1..4 : ~IsDigit(s[i]) THEN NotADate
    ELSE LET ms == SelectSeq(MonthMatches(s, 5), LAMBDA l : DayMatches(s, 5 + l) # << >>)
         IN  IF ms = << >> THEN NotADate
             ELSE LET ml == ms[1]
                      dl == DayMatches(s, 5 + ml)[1]
                      y == Number(s, 1, 4)
                      m == Number(s, 5, 4 + ml)
                      d == Number(s, 5 + ml, 4 + ml + dl)
                  IN  IF 4 + ml + dl # Len(s) \/ y = 0 \/ d > DaysInMonth(y, m)
                      THEN NotADate
                      ELSE [ok |-> TRUE, ordinal |-> ToOrdinal(y, m, d)]

\* `if x` on a text or None, and on an int or None
Truthy(x) == x # None /\ x # << >>
TruthyDays(d) == d.set /\ d.n # 0

E_Either == "Either --start-date or -d/-days option must be provided."
E_Both == "Please use either --start-date or -d/-days option."
E_StartRequired == "Start date is required if end date is provided."
E_Order == "End date must be greater than start date."

\* parser.error(msg) at a point the function has reached: argparse writes
\* the message and exits, a stand-in that returns lets the function go on
ParserError(v, msg, error_returns) ==
    [v EXCEPT !.errors = Append(@, msg),
              !.raised = IF error_returns THEN "none" ELSE "SystemExit"]

\* lines 152-153
CheckEither(v, in) ==
    IF v.raised = "none" /\ ~Truthy(v.start_date) /\ ~TruthyDays(in.days)
    THEN ParserError(v, E_Either, in.error_returns) ELSE v

\* lines 154-155
CheckBoth(v, in) ==
    IF v.raised = "none" /\ Truthy(v.start_date) /\ TruthyDays(in.days)
    THEN ParserError(v, E_Both, in.error_returns) ELSE v

\* as FromDays, but an end date that was supplied is kept
FromDaysKeepEnd(v, in) ==
    IF v.raised = "none" /\ TruthyDays(in.days)
    THEN IF in.today - in.days.n < 1 \/ in.today - in.days.n > MaxOrdinal
         THEN [v EXCEPT !.raised = "OverflowError"]
         ELSE [v EXCEPT !.start_date = StrfTime(in.today - in.days.n),
                        !.end_date = IF Truthy(@) THEN @ ELSE StrfTime(in.today)]
    ELSE v

\* lines 157-161: one datetime.now(); the subtraction leaves the range of
\* datetime with an OverflowError
FromDays(v, in) ==
    IF v.raised = "none" /\ TruthyDays(in.days)
    THEN IF in.today - in.days.n < 1 \/ in.today - in.days.n > MaxOrdinal
         THEN [v EXCEPT !.raised = "OverflowError"]
         ELSE [v EXCEPT !.start_date = StrfTime(in.today - in.days.n),
                        !.end_date = StrfTime(in.today)]
    ELSE v

\* lines 163-166
DefaultEnd(v, in) ==
    IF v.raised = "none" /\ Truthy(v.start_date) /\ ~Truthy(v.end_date)
    THEN [v EXCEPT !.end_date = StrfTime(in.today)] ELSE v

\* as CheckStartRequired, but silent
CheckStartRequiredNever(v, in) == v

\* lines 168-169
CheckStartRequired(v, in) ==
    IF v.raised = "none" /\ Truthy(v.end_date) /\ ~Truthy(v.start_date)
    THEN ParserError(v, E_StartRequired, in.error_returns) ELSE v

\* as CheckOrder, but equal dates pass
CheckOrderStrict(v, in) ==
    IF v.raised = "none" /\ Truthy(v.start_date) /\ Truthy(v.end_date)
    THEN IF ~StrpTime(v.start_date).ok \/ ~StrpTime(v.end_date).ok
         THEN [v EXCEPT !.raised = "ValueError"]
         ELSE IF StrpTime(v.end_date).ordinal < StrpTime(v.start_date).ordinal
         THEN ParserError(v, E_Order, in.error_returns)
         ELSE v
    ELSE v

\* lines 171-176
CheckOrder(v, in) ==
    IF v.raised = "none" /\ Truthy(v.start_date) /\ Truthy(v.end_date)
    THEN IF ~StrpTime(v.start_date).ok \/ ~StrpTime(v.end_date).ok
         THEN [v EXCEPT !.raised = "ValueError"]
         ELSE IF StrpTime(v.end_date).ordinal <= StrpTime(v.start_date).ordinal
         THEN ParserError(v, E_Order, in.error_returns)
         ELSE v
    ELSE v

\* validate_dates(args, parser): args.start_date and args.end_date as it
\* leaves them, the messages handed to parser.error, and how it ended
ValidateDates(in) ==
    LET v0 == [ done |-> TRUE, start_date |-> in.start_date, end_date |-> in.end_date,
                errors |-> << >>, raised |-> "none" ]
    IN  CheckOrder(CheckStartRequired(DefaultEnd(FromDays(CheckBoth(CheckEither(v0, in), in), in), in), in), in)

T_20230101 == << "2", "0", "2", "3", "0", "1", "0", "1" >>
T_20230110 == << "2", "0", "2", "3", "0", "1", "1", "0" >>
T_20240229 == << "2", "0", "2", "4", "0", "2", "2", "9" >>
T_20230229 == << "2", "0", "2", "3", "0", "2", "2", "9" >>
T_2023_01_10 == << "2", "0", "2", "3", "-", "0", "1", "-", "1", "0" >>
T_2023111 == << "2", "0", "2", "3", "1", "1", "1" >>

StartDates == { None, << >>, T_20230101, T_20230110, T_20240229, T_2023_01_10 }
EndDates == { None, T_20230101, T_20230110, T_20230229, T_2023111 }
DaysArgs == { NoDays } \cup { [set |-> TRUE, n |-> n] : n \in (-1)..MaxDays }
Todays == { ToOrdinal(2026, 11, 4), ToOrdinal(2024, 3, 1), ToOrdinal(2023, 1, 2) }

DatesInit ==
    /\ args = [worker |-> T_all, user |-> "all", table |-> FALSE, dirname |-> "exists"]
    /\ libEmptyDt = TRUE
    /\ file = [exists |-> FALSE, lines |-> << >>]
    /\ pc = "validate_dates"
    /\ jobs = NoTable
    /\ local_dj = NoTable
    /\ dask_jobs = Unset
    /\ warned = << >>
    /\ printed = << >>
    /\ outcome = "running"
    /\ stopped = "no"
    /\ calls = << >>
    /\ bs_in = NoBin
    /\ bs_out = NoBinOut
    /\ csg = NoCsg
    /\ st_in = << >>
    /\ st_out = NoStats
    /\ jf_in = NoFilterIn
    /\ jf_out = NoFilterOut
    /\ vd_in \in [ start_date : StartDates, end_date : EndDates, days : DaysArgs,
                   today : Todays, error_returns : BOOLEAN ]
    /\ vd_out = NoDatesOut

ValidateDatesCall ==
    /\ pc = "validate_dates"
    /\ vd_out' = ValidateDates(vd_in)
    /\ pc' = "done"
    /\ UNCHANGED << vd_in, calls, args, libEmptyDt, file, jobs, local_dj, dask_jobs,
                    warned, printed, outcome, stopped, bs_in, bs_out, csg, st_in,
                    st_out, jf_in, jf_out >>

DatesNext == ValidateDatesCall

DatesSpec == DatesInit /\ [][DatesNext]_vars

-----------------------------------------------------------------------------
(* _read_all_jobs run again, on an object that a first run may have given
   a table: jobs = JobsSummary(...); jobs._read_all_jobs() *)

\* the export the first run read
EarlierExport ==
    << HeaderLine(FullHeader),
       RowLine([BaseRow EXCEPT !.user = "bob", !.end = 7200, !.cpu = 100]) >>

\* self.dask_jobs as the first run left it, line 235
StoredTable ==
    [ set |-> TRUE,
      cols |-> FullHeader \cup { "Elapsed (h)", "Unused Mem", "Unused Mem (%)" },
      rows |-> JobFilter(WithElapsed(ParsedRows(EarlierExport)), T_all) ]

RereadInit ==
    /\ args \in [worker : Workers, user : { "alice" }, table : { FALSE }, dirname : { "exists" }]
    /\ file \in Files
    /\ libEmptyDt \in IF NoDataLines(file) THEN BOOLEAN ELSE { TRUE }
    /\ pc = "read"
    /\ jobs = NoTable
    /\ local_dj = NoTable
    /\ dask_jobs \in { Unset, StoredTable }
    /\ warned = << >>
    /\ printed = << >>
    /\ outcome = "running"
    /\ stopped = "no"
    /\ calls = << >>
    /\ vd_in = NoDatesIn
    /\ vd_out = NoDatesOut
    /\ bs_in = NoBin
    /\ bs_out = NoBinOut
    /\ csg = NoCsg
    /\ st_in = << >>
    /\ st_out = NoStats
    /\ jf_in = NoFilterIn
    /\ jf_out = NoFilterOut

\* _read_all_jobs called on the object itself
Reread ==
    /\ ReadFile
    /\ UNCHANGED calls

RereadNext ==
    \/ Reread
    \/ SelectJobs
    \/ FilterJobs
    \/ DeriveJobs

RereadSpec == RereadInit /\ [][RereadNext]_vars

-----------------------------------------------------------------------------
(* Properties of the job filter *)

\* the rows of the export as read_csv numbers them, before any filter
Ingested == ParsedRows(StripBanner(file.lines))

\* the cells of an ingested row, without the columns the pipeline adds
Cells(r) ==
    [ idx |-> r.idx, name |-> r.name, queue |-> r.queue, user |-> r.user,
      req |-> r.req, used |-> r.used, start |-> r.start, end |-> r.end,
      cpu |-> r.cpu, na |-> r.na, bad |-> r.bad ]

\* the row passes every stage of the filter
Wanted(r) ==
    /\ "Job Name" \notin r.na
    /\ args.worker = T_all \/ StrContains(r.name, args.worker)
    /\ r.queue # "economy"
    /\ r.na = {}

\* C1: once _read_all_jobs has completed, dask_jobs holds exactly the
\* ingested rows that have a Job Name, pass the name pattern, are not in the
\* economy queue and have no missing cell, each once and in the original order.
C1_FilteredExactly ==
    dask_jobs.set =>
        /\ Len(dask_jobs.rows) =
             Cardinality({ i \in 1..Len(Ingested) : Wanted(Ingested[i]) })
        /\ \A k \in 1..Len(dask_jobs.rows) :
             /\ dask_jobs.rows[k].idx + 1 \in 1..Len(Ingested)
             /\ Cells(dask_jobs.rows[k]) = Ingested[dask_jobs.rows[k].idx + 1]
             /\ Wanted(Ingested[dask_jobs.rows[k].idx + 1])
        /\ \A k \in 1..(Len(dask_jobs.rows) - 1) :
             dask_jobs.rows[k].idx < dask_jobs.rows[k + 1].idx

\* a two-line export of which the filter dropped the first line and kept
\* the second, whose 16 GB requested and 4 GB used give 75 % unused
C1_Witness ==
    /\ dask_jobs.set
    /\ Len(Ingested) = 2
    /\ Len(dask_jobs.rows) = 1
    /\ dask_jobs.rows[1].idx = 1
    /\ Ingested[1].queue = "economy"
    /\ dask_jobs.rows[1].unusedPct = Num(75)

\* the ingested row with index idx is in the local dask_jobs
Selected(idx) == \E k \in 1..Len(local_dj.rows) : local_dj.rows[k].idx = idx

\* C2 as stated: with a pattern other than 'all' a row passes the name stage
\* exactly when its Job Name holds the pattern as a literal substring.
C2_LiteralSubstring ==
    (pc = "filter" /\ args.worker # T_all) =>
        \A i \in 1..Len(Ingested) :
            "Job Name" \notin Ingested[i].na =>
                (Selected(Ingested[i].idx) <=> Contains(Ingested[i].name, args.worker))

\* C2 amended: the pattern is a regular expression searched in the Job Name.
\* The pattern 'dask' selects the names that hold "dask"; the pattern
\* 'dask*', where '*' repeats the 'k' zero or more times, selects the names
\* that hold "das".  Matching is case-sensitive.
C2_RegexSearch ==
    (pc = "filter" /\ args.worker # T_all) =>
        \A i \in 1..Len(Ingested) :
            "Job Name" \notin Ingested[i].na =>
                /\ args.worker = T_dask =>
                     (Selected(Ingested[i].idx) <=> Contains(Ingested[i].name, T_dask))
                /\ args.worker = T_daskstar =>
                     (Selected(Ingested[i].idx) <=> Contains(Ingested[i].name, T_das))

\* the pattern 'dask*' has selected a job named "das" and passed over "Dask"
C2_Witness ==
    /\ pc = "filter"
    /\ args.worker = T_daskstar
    /\ Len(Ingested) = 2
    /\ Ingested[1].name = T_das /\ Ingested[1].na = {} /\ Selected(0)
    /\ Ingested[2].name = T_Dask /\ Ingested[2].na = {} /\ ~Selected(1)

-----------------------------------------------------------------------------
(* Properties of bin_summary *)

\* the value lies in [boundaries[0], boundaries[-1])
InHalfOpenRange(bins, x) ==
    x.k = "num" /\ bins[1] <= x.v /\ x.v < bins[Len(bins)]

\* C3: every value v with boundaries[0] <= v < boundaries[-1] is in exactly
\* one bucket, the bucket i with boundaries[i] <= v < boundaries[i+1]; a value
\* equal to an interior boundary is in the bucket that starts there, and a
\* value equal to boundaries[0] is in the first bucket.
C3_HalfOpenBuckets ==
    bs_out.done =>
        \A i \in 1..Len(bs_in.values) :
            InHalfOpenRange(bs_in.bins, bs_in.values[i]) =>
                /\ bs_out.bin[i] \in 1..(Len(bs_in.bins) - 1)
                /\ bs_in.bins[bs_out.bin[i]] <= bs_in.values[i].v
                /\ bs_in.values[i].v < bs_in.bins[bs_out.bin[i] + 1]

\* with boundaries [0, 50, 100] the value 50 is in the second bucket and
\* the value 0 in the first
C3_Witness ==
    /\ bs_out.done
    /\ bs_in.bins = << 0, 50, 100 >>
    /\ bs_in.values = << Num(50), Num(0) >>
    /\ bs_out.bin = << 2, 1 >>

\* C4 as stated: a value equal to the last boundary is counted in the last
\* bucket.
C4_LastBoundaryInLastBucket ==
    bs_out.done =>
        \A i \in 1..Len(bs_in.values) :
            bs_in.values[i] = Num(bs_in.bins[Len(bs_in.bins)]) =>
                bs_out.bin[i] = Len(bs_in.bins) - 1

\* C5 as stated: the percentage of a bucket is 100 x (rows in the bucket) /
\* (rows of the table), so that values outside the range stay in the base.
C5_BaseIsAllRows ==
    bs_out.done =>
        \A b \in 1..(Len(bs_in.bins) - 1) :
            bs_out.pct[b] = PctOf(CountIn(bs_out.bin, b), Len(bs_in.values))

-----------------------------------------------------------------------------
(* Properties of the run's error handling *)

\* C6 as stated: when ingestion stops early the run emits only a warning,
\* prints no report section and ends without an unhandled error.
C6_EarlyStopEndsQuietly ==
    (pc = "done" /\ stopped = "early") =>
        /\ Len(warned) = 1
        /\ printed = << >>
        /\ outcome = "ok"

\* the text of the file is malformed CSV: a data line with a field too many,
\* or a Job Start / Job End cell that is no timestamp
Malformed(f) ==
    /\ f.exists
    /\ \E i \in 1..Len(f.lines) :
         /\ f.lines[i].kind = "row"
         /\ \/ f.lines[i].extra
            \/ f.lines[i].row.bad \cap { "Job Start", "Job End" } # {}

\* C7 as stated: on malformed CSV _read_all_jobs warns and stops early, and
\* no exception escapes it.
C7_MalformedCsvWarns ==
    (Malformed(file) /\ pc \notin { "run_shell_code", "read" }) =>
        /\ stopped = "early"
        /\ Len(warned) = 1
        /\ outcome \notin { "ParserError", "TypeError", "ValueError" }

\* C8 as stated: an existing, empty file ends ingestion in a warning, with no
\* report section and no exception to the caller.
C8_EmptyFileWarns ==
    (file.exists /\ file.lines = << >> /\ pc \notin { "run_shell_code", "read" }) =>
        /\ stopped = "early"
        /\ Len(warned) = 1
        /\ printed = << >>
        /\ outcome # "EmptyDataError"

\* C9 as stated: no infinite or NaN percentage is ever stored in dask_jobs.
C9_NoInfNaNStored ==
    dask_jobs.set =>
        \A k \in 1..Len(dask_jobs.rows) : dask_jobs.rows[k].unusedPct.k = "num"

\* C10, the step: when the filter stage has left no row, the next step of
\* _read_all_jobs issues the warning and ends the run, with no derived column
\* computed, dask_jobs not set and nothing printed.
C10_Step ==
    (pc = "derive" /\ Len(local_dj.rows) = 0) =>
        /\ warned' = Append(warned, "Warning! No jobs found for this user and this time period!")
        /\ pc' = "done"
        /\ outcome' = "SystemExit"
        /\ local_dj' = local_dj
        /\ ~dask_jobs'.set
        /\ printed' = << >>

\* C10: a filter stage that leaves no row ends in a warning and the end of
\* the run, before any derived field and any report section; and whenever
\* dask_jobs is set it holds at least one row.
C10_NoJobsTerminates ==
    /\ [][C10_Step]_vars
    /\ [](dask_jobs.set => Len(dask_jobs.rows) >= 1)
    /\ []((outcome = "SystemExit") => (printed = << >> /\ ~dask_jobs.set))

\* the pattern 'dask' found no job in an export of jobs named otherwise: the
\* warning was issued and the run ended in sys.exit()
C10_Witness ==
    /\ pc = "done"
    /\ outcome = "SystemExit"
    /\ Len(Ingested) >= 1
    /\ local_dj.rows = << >>
    /\ Len(warned) = 1
    /\ ~dask_jobs.set

\* the columns the pipeline cannot do without
RequiredCols == { "Job Name", "Queue", "Job Start", "Job End", "Req Mem", "Used Mem" }

\* the file is a table that read_csv accepts, and either its header lacks a
\* required column or a row the filter keeps has a Req Mem, Used Mem or
\* Elapsed cell that is no number
SchemaFault ==
    /\ file.exists
    /\ ~HasMarker(file.lines)
    /\ ReadCsvError(StripBanner(file.lines)) = "none"
    /\ StripBanner(file.lines)[1].kind = "header"
    /\ \/ ~(RequiredCols \subseteq CsvCols(StripBanner(file.lines)))
       \/ \E i \in 1..Len(Ingested) :
              /\ Wanted(Ingested[i])
              /\ Ingested[i].bad \cap { "Req Mem", "Used Mem", "Elapsed" } # {}

\* C11 as stated: when a required column is absent from the header, or a
\* Req Mem, Used Mem or Elapsed cell of a kept row is no number, the
\* construction of JobsSummary ends in an exception that reaches the caller:
\* _read_all_jobs never returns with a warning, dask_jobs is never set and no
\* report section is printed.
C11_SchemaFaultIsFatal ==
    (SchemaFault /\ pc \notin { "run_shell_code", "read" }) =>
        /\ stopped = "no"
        /\ ~dask_jobs.set
        /\ printed = << >>
        /\ pc \notin { "derive", "dask_user_report", "dask_csg_report" }
        /\ pc = "done" => outcome \notin { "running", "ok", "SystemExit" }

-----------------------------------------------------------------------------
(* Properties of dask_csg_report *)

UsersOf(rows) == { rows[i].user : i \in 1..Len(rows) }

\* the positions of the user's rows in the table
RowsOfUser(rows, u) == { i \in 1..Len(rows) : rows[i].user = u }

\* the sum of f over the set S
RECURSIVE SetSum(_, _)
SetSum(S, f) ==
    IF S = {} THEN 0
    ELSE LET x == CHOOSE y \in S : TRUE IN f[x] + SetSum(S \ {x}, f)

\* C12: grouped_dj has one row per distinct User of dask_jobs; the count of a
\* user is the number of the user's rows, and the counts sum to the number of
\* rows of dask_jobs; the Unused Core-Hour of a reported user is
\* (mean Unused Mem) x (mean Elapsed (h)) x count, that is
\* (sum Unused Mem) x (sum Elapsed (h)) / count.
C12_OneRowPerUser ==
    csg.done =>
        LET rows == dask_jobs.rows
            g == csg.grouped
        IN  /\ { g[i].user : i \in 1..Len(g) } = UsersOf(rows)
            /\ \A i, j \in 1..Len(g) : g[i].user = g[j].user => i = j
            /\ \A i \in 1..Len(g) :
                   g[i].count = Cardinality(RowsOfUser(rows, g[i].user))
            /\ SetSum(1..Len(g), [i \in 1..Len(g) |-> g[i].count]) = Len(rows)
            /\ \A a \in 1..Len(csg.agg) :
                   LET mine == RowsOfUser(rows, csg.agg[a].user)
                       su == SetSum(mine, [k \in mine |-> rows[k].unused])
                       se == SetSum(mine, [k \in mine |-> rows[k].elapsedH.v])
                   IN  csg.agg[a].coreHour.n * Cardinality(mine) =
                           csg.agg[a].coreHour.d * su * se

\* two jobs of alice, of 12 and 16 unused GB and one hour each: 14 x 1 x 2
C12_Witness ==
    /\ csg.done
    /\ Len(dask_jobs.rows) = 2
    /\ Len(csg.agg) = 1
    /\ csg.agg[1].user = "alice"
    /\ csg.agg[1].count = 2
    /\ csg.agg[1].unusedMean = Q(14, 1)
    /\ csg.agg[1].coreHour = Q(28, 1)

\* the mean of the user's Unused Mem (%) is a number that is >= 0
MeanPctNonNegative(rows, u) ==
    LET mine == RowsOfUser(rows, u)
        nums == { k \in mine : rows[k].unusedPct.k = "num" }
    IN  /\ nums # {}
        /\ \A k \in mine : rows[k].unusedPct.k \in { "num", "nan" }
        /\ SetSum(nums, [k \in nums |-> rows[k].unusedPct.v]) >= 0

\* C13: the printed table holds exactly the users whose mean Unused Mem (%)
\* is >= 0, each once: a negative mean keeps the user out and a mean of
\* exactly 0 keeps the user in.
C13_ThresholdAtZero ==
    csg.done =>
        /\ { csg.shown[i].user : i \in 1..Len(csg.shown) } =
               { u \in UsersOf(dask_jobs.rows) : MeanPctNonNegative(dask_jobs.rows, u) }
        /\ \A i, j \in 1..Len(csg.shown) :
               csg.shown[i].user = csg.shown[j].user => i = j

\* alice used all she asked for (mean 0 %) and is reported, after bob
C13_Witness ==
    /\ csg.done
    /\ Len(csg.shown) = 2
    /\ csg.shown[2].user = "alice"
    /\ csg.shown[2].pctMean = [k |-> "num", q |-> Q(0, 1)]
    /\ csg.shown[1].user = "bob"

\* C14: the printed table holds the rows of dj_agg, each once, in
\* non-increasing order of Unused Core-Hour.
C14_PrintedDescending ==
    csg.done =>
        /\ Len(csg.shown) = Len(csg.agg)
        /\ { csg.shown[i] : i \in 1..Len(csg.shown) } =
               { csg.agg[i] : i \in 1..Len(csg.agg) }
        /\ \A i \in 1..(Len(csg.shown) - 1) :
               QLe(csg.shown[i + 1].coreHour, csg.shown[i].coreHour)

\* bob (24 GB.hr) is printed before alice (12 GB.hr), who comes first in dj_agg
C14_Witness ==
    /\ csg.done
    /\ Len(csg.agg) = 2
    /\ csg.agg[1].user = "alice" /\ csg.agg[1].coreHour = Q(12, 1)
    /\ csg.shown[1].user = "bob" /\ csg.shown[1].coreHour = Q(24, 1)
    /\ csg.shown[2].user = "alice"

\* C15 as stated: the file written holds the rows of the printed table in
\* the order of the printed table.
C15_CsvIsRankedTable ==
    (csg.done /\ csg.saved) => csg.csv = csg.shown

-----------------------------------------------------------------------------
(* Properties of what bin_summary prints *)

\* C18: bin_summary prints one entry for every label, each label once, from
\* the last bucket down to the first, and a percentage goes with every label,
\* whether or not a row is in its bucket.
C18_OneEntryPerLabelDescending ==
    bs_out.done =>
        /\ Len(bs_out.shown) = Len(bs_in.bins) - 1
        /\ { bs_out.shown[i] : i \in 1..Len(bs_out.shown) } = 1..(Len(bs_in.bins) - 1)
        /\ \A i \in 1..(Len(bs_out.shown) - 1) : bs_out.shown[i] > bs_out.shown[i + 1]
        /\ DOMAIN bs_out.pct = 1..(Len(bs_in.bins) - 1)

\* one value of 20 and the default buckets: four entries, ">=75%" first with
\* 0.00 % and "<25%" last with 100.00 %
C18_Witness ==
    /\ bs_out.done
    /\ bs_in.bins = DefaultBins
    /\ bs_in.values = << Num(20) >>
    /\ bs_out.shown = << 4, 3, 2, 1 >>
    /\ bs_out.pct[4] = Num(0)
    /\ bs_out.pct[1] = Num(10000)

\* C19 as stated: with the default buckets and at least one row, all values
\* inside [boundaries[0], boundaries[-1]], the printed percentages are
\* numbers whose sum is within 0.02 of 100.00 (in hundredths: within 2 of
\* 10000).
C19_PercentagesSumTo100 ==
    ( /\ bs_out.done
      /\ bs_in.bins = DefaultBins
      /\ Len(bs_in.values) >= 1
      /\ \A i \in 1..Len(bs_in.values) :
             /\ bs_in.values[i].k = "num"
             /\ DefaultBins[1] <= bs_in.values[i].v
             /\ bs_in.values[i].v <= DefaultBins[Len(DefaultBins)] ) =>
        /\ \A b \in DOMAIN bs_out.pct : bs_out.pct[b].k = "num"
        /\ Abs(SetSum(DOMAIN bs_out.pct, [b \in DOMAIN bs_out.pct |-> bs_out.pct[b].v])
               - 10000) <= 2

-----------------------------------------------------------------------------
(* Properties of compute_summary_stats *)

\* the bit vector moved n places to the right: the number times 2^-n
ShiftRight(v, n) == Zeros(n) \o SubSeq(v, 1, Len(v) - n)

\* x * (1 + 2^-50) and x * (1 - 2^-50), exactly
SlightlyMore(x) == [k |-> "num", v |-> AddBits(x.v, ShiftRight(x.v, Mantissa - 3))]
SlightlyLess(x) == [k |-> "num", v |-> SubBits(x.v, ShiftRight(x.v, Mantissa - 3))]

\* the result has exactly the four statistics; min and max are values of
\* the column, the smallest and the largest, and min <= median <= max
MinMedianMax ==
    /\ DOMAIN st_out.stats = { "mean", "median", "min", "max" }
    /\ \E i \in 1..Len(st_in) : st_in[i] = st_out.stats.min
    /\ \E i \in 1..Len(st_in) : st_in[i] = st_out.stats.max
    /\ \A i \in 1..Len(st_in) :
           st_in[i].k # "nan" =>
               DLe(st_out.stats.min, st_in[i]) /\ DLe(st_in[i], st_out.stats.max)
    /\ DLe(st_out.stats.min, st_out.stats.median)
    /\ DLe(st_out.stats.median, st_out.stats.max)

C17_EmptyColumnFails ==
    (st_out.done /\ Present(st_in) = << >>) =>
        /\ st_out.raised = "EmptyColumnError"
        /\ \A f \in DOMAIN st_out.stats : st_out.stats[f].k # "nan"

-----------------------------------------------------------------------------
(* Properties of the job filter applied again *)

\* C20 as stated: the filter applied to a table it has produced runs to its
\* end and leaves that table as it is: every row stays, and Unused Mem and
\* Unused Mem (%) keep their values.
C20_FilterIdempotent ==
    (pc = "done" /\ jf_out.applied >= 1) =>
        /\ jf_out.applied = 2
        /\ jf_out.rows = jf_out.before

-----------------------------------------------------------------------------
(* Properties of ingestion *)

\* the header of the export is the full one without the column c
HeaderWithout(c) ==
    /\ file.exists
    /\ ~HasMarker(file.lines)
    /\ StripBanner(file.lines) # << >>
    /\ CsvCols(StripBanner(file.lines)) = FullHeader \ {c}

\* the rows of dask_jobs without the column df["bin"] that a report adds
WithoutBin(rows) ==
    [i \in 1..Len(rows) |->
        [f \in DOMAIN rows[i] \ { "bin" } |-> rows[i][f]]]

\* C21 as stated: Elapsed (h) of an ingested row is (Job End - Job Start) in
\* seconds over 3600; and on an export whose header has no Elapsed column,
\* ingestion and filter end as they do on the same rows under the full
\* header: in the same exception, or with the same rows in dask_jobs.
C21_ElapsedColumnIrrelevant ==
    /\ \A i \in 1..Len(jobs.rows) :
           jobs.rows[i].na \cap { "Job Start", "Job End" } = {} =>
               jobs.rows[i].elapsedH = Num((jobs.rows[i].end - jobs.rows[i].start) \div 3600)
    /\ (HeaderWithout("Elapsed") /\ Len(Ingested) >= 1 /\ pc = "done") =>
           LET full == JobFilterError(WithElapsed(Ingested), args.worker)
           IN  IF full = "none"
               THEN /\ dask_jobs.set
                    /\ WithoutBin(dask_jobs.rows) = JobFilter(WithElapsed(Ingested), args.worker)
               ELSE outcome = full

\* the lines of the file without its first two when the first is the banner
\* line, and all of them otherwise
ExpectedText ==
    IF file.lines # << >> /\ file.lines[1].kind = "banner"
    THEN SubSeq(file.lines, 3, Len(file.lines))
    ELSE file.lines

\* the text is a table that both reads of lines 138-147 accept and whose
\* Elapsed (h) can be computed
ReadableTable(lines) ==
    /\ lines # << >>
    /\ lines[1].kind = "header"
    /\ { "Job Start", "Job End" } \subseteq lines[1].cols
    /\ \A i \in 2..Len(lines) :
           /\ lines[i].kind = "row"
           /\ ~lines[i].extra
           /\ lines[i].row.bad \cap { "Job Start", "Job End" } = {}
    /\ Len(lines) >= 2 \/ libEmptyDt

\* C22: the text parsed is the file without its first two lines when the
\* first line starts with /glade/u/apps/opt/, and the whole file, line by
\* line and in order, otherwise: when that text is a readable table, the
\* frame `jobs` has its header and, before any filter, one row per data
\* line of it, in order.
C22_BannerStripsTwoLines ==
    ( /\ \E c \in 1..Len(calls) : calls[c].op = "JobsSummary"
      /\ file.exists
      /\ ~HasMarker(file.lines)
      /\ ReadableTable(ExpectedText) ) =>
        /\ jobs.cols = ExpectedText[1].cols \cup { "Elapsed (h)" }
        /\ pc = "select" =>
               /\ Len(jobs.rows) = Len(ExpectedText) - 1
               /\ \A i \in 1..Len(jobs.rows) :
                      /\ jobs.rows[i].idx = i - 1
                      /\ \A f \in { "name", "queue", "user", "req", "used", "start", "end", "cpu" } :
                             jobs.rows[i][f] = ExpectedText[i + 1].row[f]

\* a banner line, the wrapped fragment, then the header and one data line:
\* the frame has the one row
C22_Witness ==
    /\ pc = "select"
    /\ Len(file.lines) = 4
    /\ file.lines[1].kind = "banner"
    /\ file.lines[3].kind = "header"
    /\ Len(jobs.rows) = 1
    /\ jobs.rows[1].idx = 0


-----------------------------------------------------------------------------
(* Properties of the report operations as steps of the run *)

\* C23: bin_summary, dask_user_report and dask_csg_report leave the table
\* they are given unchanged: a step of either report operation keeps the
\* columns and the rows of dask_jobs.
C23_ReportsLeaveTableUnchanged ==
    [][ (pc \in { "dask_user_report", "dask_csg_report" }) => (dask_jobs' = dask_jobs) ]_vars

\* the positions of the calls of op among the calls made
CallsOf(op) == { i \in 1..Len(calls) : calls[i].op = op }

\* C24: whatever the arguments, a bare file name included, a finished
\* run_qhist has constructed QhistRunner once with (start_date, end_date,
\* filename, user), has called run_shell_code once and before JobsSummary
\* read the file, has called dask_user_report once after that, and has
\* called dask_csg_report exactly when user is 'all'.
C24_CallOrder ==
    pc = "done" =>
        /\ \E q \in CallsOf("QhistRunner"), r \in CallsOf("run_shell_code"),
              j \in CallsOf("JobsSummary"), u \in CallsOf("dask_user_report") :
              /\ CallsOf("QhistRunner") = { q }
              /\ calls[q].with = << "start_date", "end_date", "filename", "user" >>
              /\ CallsOf("run_shell_code") = { r }
              /\ CallsOf("dask_user_report") = { u }
              /\ q < r /\ r < j /\ j < u
        /\ (CallsOf("dask_csg_report") # {}) <=> (args.user = "all")


-----------------------------------------------------------------------------
(* Properties of validate_dates *)

\* how many times msg was handed to parser.error
Reported(msg) == Cardinality({ i \in 1..Len(vd_out.errors) : vd_out.errors[i] = msg })

\* C25: a start date given without an end date and without days makes
\* validate_dates report 'End date is required if start date is provided.'
\* exactly once.
C25_EndDateRequired ==
    ( /\ vd_out.done
      /\ Truthy(vd_in.start_date)
      /\ vd_in.end_date = None
      /\ ~vd_in.days.set ) =>
        Reported("End date is required if start date is provided.") = 1

\* validate_dates got as far as comparing the dates, or past every check
ComparisonReached ==
    \/ vd_out.raised = "none"
    \/ /\ vd_out.raised = "SystemExit"
       /\ vd_out.errors[Len(vd_out.errors)] = E_Order

\* both dates are present after defaulting and, as calendar dates, the end
\* date is not after the start date
EndNotLater ==
    /\ Truthy(vd_out.start_date)
    /\ Truthy(vd_out.end_date)
    /\ StrpTime(vd_out.end_date).ok
    /\ StrpTime(vd_out.start_date).ok
    /\ StrpTime(vd_out.end_date).ordinal <= StrpTime(vd_out.start_date).ordinal

IsYYYYMMDD(s) == Len(s) = 8 /\ \A i \in 1..8 : IsDigit(s[i])

\* C27: with days = N >= 1 and no start date, end_date becomes today and
\* start_date the day N days before today, both written YYYYMMDD and
\* different from each other, whatever end_date was supplied, and no error
\* is reported.
C27_DaysDeriveBothDates ==
    ( /\ vd_out.done
      /\ vd_in.days.set /\ vd_in.days.n >= 1
      /\ ~Truthy(vd_in.start_date) ) =>
        /\ IsYYYYMMDD(vd_out.start_date)
        /\ IsYYYYMMDD(vd_out.end_date)
        /\ StrpTime(vd_out.end_date) = [ok |-> TRUE, ordinal |-> vd_in.today]
        /\ StrpTime(vd_out.start_date) = [ok |-> TRUE, ordinal |-> vd_in.today - vd_in.days.n]
        /\ vd_out.start_date # vd_out.end_date
        /\ vd_out.errors = << >>
        /\ vd_out.raised = "none"

\* one day back from 1 March of a leap year, with an end date supplied
C27_Witness ==
    /\ vd_out.done
    /\ vd_in.days = [set |-> TRUE, n |-> 1]
    /\ vd_in.start_date = None
    /\ vd_in.end_date = T_20230101
    /\ vd_in.today = ToOrdinal(2024, 3, 1)
    /\ vd_out.start_date = T_20240229
    /\ vd_out.end_date # T_20230101

\* C28: with neither a start date nor days, validate_dates reports exactly
\* the one error 'Either --start-date or -d/-days option must be provided.',
\* whatever the end date and whether parser.error exits or returns, and
\* derives no dates.
C28_OnlyEitherError ==
    ( vd_out.done /\ ~Truthy(vd_in.start_date) /\ ~TruthyDays(vd_in.days) ) =>
        /\ vd_out.errors = << E_Either >>
        /\ vd_out.start_date = vd_in.start_date
        /\ vd_out.end_date = vd_in.end_date

\* C28 as the code has it: the 'Either ...' error comes first and no date is
\* derived; it is the only error unless parser.error returns and an end date
\* was supplied, and then 'Start date is required if end date is provided.'
\* follows it.
C28_EitherErrorFirst ==
    ( vd_out.done /\ ~Truthy(vd_in.start_date) /\ ~TruthyDays(vd_in.days) ) =>
        /\ vd_out.errors = IF vd_in.error_returns /\ Truthy(vd_in.end_date)
                           THEN << E_Either, E_StartRequired >>
                           ELSE << E_Either >>
        /\ vd_out.start_date = vd_in.start_date
        /\ vd_out.end_date = vd_in.end_date

\* an end date alone and a parser.error that returns: two errors
C28_Witness ==
    /\ vd_out.done
    /\ vd_in.error_returns
    /\ vd_in.start_date = None
    /\ ~vd_in.days.set
    /\ vd_in.end_date = T_20230110
    /\ Len(vd_out.errors) = 2


-----------------------------------------------------------------------------
(* Properties of what dask_user_report prints *)

\* dask_user_report has returned and nothing else has printed yet
UserReportReturned ==
    /\ dask_jobs.set
    /\ \/ pc = "dask_csg_report"
       \/ pc = "done" /\ outcome = "ok" /\ args.user # "all"

\* C29: without verbose, dask_user_report(table=True) makes exactly 3 print
\* calls, none of them a bucket distribution, and dask_user_report(table=False)
\* makes exactly 30, on any non-empty filtered table.
C29_PrintCounts ==
    UserReportReturned =>
        /\ Len(printed) = IF args.table THEN 3 ELSE 30
        /\ args.table =>
               \A i \in 1..Len(printed) :
                   printed[i] \notin { "bin_summary Unused Mem (%)", "bin_summary Avg CPU" }


-----------------------------------------------------------------------------
(* Properties of _read_all_jobs as a writer of self.dask_jobs *)

\* C30: a step of _read_all_jobs changes self.dask_jobs only if it is the
\* one that completes the pipeline; every early stop (missing file, marker
\* phrase, parse warning, zero parsed rows) leaves it as it was, unset on a
\* fresh object and the stored table on an object that has one.
C30_AssignedOnlyOnCompletion ==
    [][ /\ (dask_jobs' # dask_jobs) =>
               (pc = "derive" /\ pc' = "dask_user_report" /\ stopped' = "set")
        /\ (stopped' = "early") => (dask_jobs' = dask_jobs) ]_vars

\* the second run stopped early on an object that has a table: it is the
\* table of the first run
C30_Witness ==
    /\ stopped = "early"
    /\ warned # << >>
    /\ dask_jobs = StoredTable

====
